---- MODULE Spec2Model ----
(***************************************************************************)
(* pdfmder: PDF -> Markdown, page by page.                                 *)
(*                                                                         *)
(* The module models                                                       *)
(*   - the text transforms of llm_markdown.py and converter.py on strings  *)
(*     represented as sequences of one-character strings,                  *)
(*   - the page renderer (pdfium_images.py) and the asset extractor        *)
(*     (pdfium_extract.py) with their temporary directory,                 *)
(*   - the page converter (llm_markdown.py) with its credential check,     *)
(*     retry policy and fallback,                                          *)
(*   - the document pipeline (converter.py) and the command surface        *)
(*     (cli.py).                                                           *)
(*                                                                         *)
(* Specifications:                                                         *)
(*   SpecFallback  fallback_markdown applied once and twice to a string    *)
(*   SpecAssets    render_pdf_pages_to_images_tmp / extract_pdf_assets     *)
(*                 called directly                                         *)
(*   Spec          the command surface driving the whole pipeline          *)
(***************************************************************************)
EXTENDS Naturals, Integers, Sequences, FiniteSets, TLC

VARIABLES
    \* ---- fallback_markdown exercised as a pure function
    fb_pc,          \* "input" | "once" | "twice"
    fb_x,           \* the input string
    fb_y,           \* fallback_markdown(fb_x)
    fb_z,           \* fallback_markdown(fb_y)
    \* ---- the document, its temporary assets and their direct callers
    doc,            \* the document: its pages' text layers, in page order
    tmp_dir,        \* TRUE while the TemporaryDirectory exists
    tmp_files,      \* image files that exist in it (page numbers 1..N)
    image_paths,    \* the renderer's list of paths
    pil_images,     \* the renderer's list of images
    page_count,     \* the renderer's page_count
    page_texts,     \* the extractor's list of texts
    caller,         \* who uses the renderer: "test" | "extract_pdf_assets" | "pipeline"
    r_pc,           \* the renderer's context: "off" | "open" | "loop" | "yielded" | "exiting" | "closed"
    r_i,            \* the renderer's loop index
    r_raised,       \* TRUE when the context is left by an exception
    x_i,            \* the extractor's loop index
    a_pc,           \* position of the direct caller of the asset functions
    a_result,       \* what extract_pdf_assets handed to its caller
    \* ---- the page converter, convert_to_markdown
    env,            \* the environment variables the converter reads
    c_pc,           \* "idle" | "entry" | "prepare" | "attempt" | "returned" | "raised"
    window,         \* the keyword arguments of the call in progress
    attempt_log,    \* outcome of each model call attempt of the call in progress
    delays,         \* the backoff waits slept through in the call in progress
    images_read,    \* image files read by the call in progress
    called_model,   \* TRUE once a request went to the provider for this document
    c_ret,          \* the (markdown, metrics) the call returned
    exc,            \* the exception in flight
    \* ---- the document pipeline, convert_pdf_to_markdown
    p_pc,           \* "off" | "start" | "assets" | "loop" | "call" | "returning" | "raising" | "returned" | "raised"
    p_i,            \* the page loop's index
    md_pages,       \* Markdown per page
    page_metrics,   \* PageMetrics per page
    prev_md,        \* Markdown of the page before
    conv_log,       \* history: window and result of every converter call that returned
    p_result,       \* what the pipeline returned
    \* ---- the command surface, cli
    cli_args,       \* the PDF path (does it exist, its suffix) and the --output option
    cli_pc,         \* "off" | "start" | "resolve" | "converting" | "done" | "exit" | "crashed"
    out_dir,        \* TRUE when <cwd>/output exists
    out_files,      \* content of the candidate output files, None for a free name
    out_path,       \* the output path chosen
    console,        \* what console.print has shown
    summary,        \* the totals shown after the per-page table
    exit_code,      \* the process's exit code, None while it runs
    runs            \* how many times the command has been run on the document

\* Python's None, and a value that is not None
None == <<>>
Some(v) == <<v>>

(***************************************************************************)
(* Bounds.                                                                 *)
(***************************************************************************)
MaxLen == 6         \* longest input string of SpecFallback
MaxPages == 3       \* most pages of a document

(***************************************************************************)
(* Strings: sequences over a small alphabet with a letter, a blank and a   *)
(* newline.  Python's str.strip() removes both kinds of whitespace,        *)
(* str.strip("\n") only the newline.                                       *)
(***************************************************************************)
NL == "\n"
Chars == {"a", " ", NL}
Whitespace == {" ", NL}

RECURSIVE LStripChars(_, _)
LStripChars(s, cs) ==
    IF s # <<>> /\ Head(s) \in cs THEN LStripChars(Tail(s), cs) ELSE s

RECURSIVE RStripChars(_, _)
RStripChars(s, cs) ==
    IF s # <<>> /\ s[Len(s)] \in cs
    THEN RStripChars(SubSeq(s, 1, Len(s) - 1), cs)
    ELSE s

StripChars(s, cs) == LStripChars(RStripChars(s, cs), cs)

\* a plausible slip: lstrip() where strip() was meant
LStripOnly(s) == LStripChars(s, Whitespace)

\* str.strip()
Strip(s) == StripChars(s, Whitespace)

\* length of the run of newlines s starts with
RECURSIVE NewlineRun(_)
NewlineRun(s) ==
    IF s # <<>> /\ Head(s) = NL THEN 1 + NewlineRun(Tail(s)) ELSE 0

Drop(s, k) == SubSeq(s, k + 1, Len(s))

\* a plausible slip: the newline runs are left as they are
CollapseSkipped(s) == s

\* re.sub(r"\n{3,}", "\n\n", s): leftmost, greedy, non-overlapping
RECURSIVE CollapseNewlines(_)
CollapseNewlines(s) ==
    IF s = <<>> THEN <<>>
    ELSE LET k == NewlineRun(s) IN
         IF k >= 3 THEN <<NL, NL>> \o CollapseNewlines(Drop(s, k))
         ELSE IF k > 0 THEN SubSeq(s, 1, k) \o CollapseNewlines(Drop(s, k))
         ELSE <<Head(s)>> \o CollapseNewlines(Tail(s))

\* llm_markdown.py, fallback_markdown
fallback_markdown(text) ==
    LET cleaned == Strip(text) IN
    IF cleaned = <<>> THEN <<>>
    ELSE CollapseNewlines(cleaned) \o <<NL>>

\* all strings of length at most n
RECURSIVE StringsUpTo(_)
StringsUpTo(n) ==
    IF n = 0 THEN {<<>>}
    ELSE LET shorter == StringsUpTo(n - 1) IN
         shorter \cup {Append(s, c) : s \in {t \in shorter : Len(t) = n - 1}, c \in Chars}

(***************************************************************************)
(* Documents: a document is the sequence of its pages' text layers.  A     *)
(* page without text layer has the empty string.                           *)
(***************************************************************************)
PageTexts ==
    { <<>>,
      <<" ", "a", NL, NL, NL, "a", NL>> }

RECURSIVE DocsOfLen(_)
DocsOfLen(n) ==
    IF n = 0 THEN {<<>>}
    ELSE {Append(d, t) : d \in DocsOfLen(n - 1), t \in PageTexts}

Docs == UNION {DocsOfLen(n) : n \in 0..MaxPages}

fbVars == <<fb_pc, fb_x, fb_y, fb_z>>
constVars == <<doc, caller, env>>
renderVars == <<tmp_dir, tmp_files, image_paths, pil_images, page_count, r_pc, r_i, r_raised>>
directVars == <<x_i, a_pc, a_result>>
convVars == <<c_pc, window, attempt_log, delays, images_read, called_model, c_ret, exc>>
pipeVars == <<p_pc, p_i, md_pages, page_metrics, prev_md, conv_log, p_result>>
cliVars == <<cli_args, cli_pc, out_dir, out_files, out_path, console, summary, exit_code, runs>>
vars == <<fbVars, constVars, renderVars, page_texts, directVars, convVars, pipeVars, cliVars>>

\* what the renderer's steps leave alone, and what the direct callers' steps do
notRender == <<fbVars, constVars, page_texts, directVars, convVars, pipeVars, cliVars>>
notDirect == <<fbVars, constVars, convVars, pipeVars, cliVars>>

\* no exception in flight
NoException == [type |-> "none", what |-> "none"]

\* the parts a specification does not use stay as they are here
InitPipelineIdle ==
    /\ env = [AZURE_OPENAI_ENDPOINT |-> FALSE, AZURE_OPENAI_API_KEY |-> FALSE,
              OPENAI_API_KEY |-> FALSE, PDFMDER_ALLOW_FALLBACK |-> "unset"]
    /\ c_pc = "idle"
    /\ window = None
    /\ attempt_log = <<>>
    /\ delays = <<>>
    /\ images_read = {}
    /\ called_model = FALSE
    /\ c_ret = None
    /\ exc = NoException
    /\ p_pc = "off"
    /\ p_i = 0
    /\ md_pages = <<>>
    /\ page_metrics = <<>>
    /\ prev_md = None
    /\ conv_log = <<>>
    /\ p_result = None

\* the names an output file may get: the resolved path (0) and the path
\* with -1, -2, ... before its suffix
MaxRuns == 2        \* most runs of the command on one document

\* the counters of the candidate names: the highest name taken before the
\* first run is 2, and each run takes one more
CandidateIndexes == 0..(MaxRuns + 2)
OutNames == [where : {"default", "explicit"}, k : CandidateIndexes]

InitCliIdle ==
    /\ cli_args = [pdf_exists |-> FALSE, suffix |-> "", output |-> None]
    /\ cli_pc = "off"
    /\ out_dir = FALSE
    /\ out_files = [n \in OutNames |-> None]
    /\ out_path = None
    /\ console = <<>>
    /\ summary = None
    /\ exit_code = None
    /\ runs = 0

InitAssetsIdle ==
    /\ doc = <<>>
    /\ tmp_dir = FALSE
    /\ tmp_files = {}
    /\ image_paths = <<>>
    /\ pil_images = <<>>
    /\ page_count = 0
    /\ page_texts = <<>>
    /\ caller = "none"
    /\ r_pc = "off"
    /\ r_i = 0
    /\ r_raised = FALSE
    /\ x_i = 0
    /\ a_pc = "off"
    /\ a_result = None

InitFbIdle ==
    /\ fb_pc = "off"
    /\ fb_x = <<>>
    /\ fb_y = <<>>
    /\ fb_z = <<>>

(***************************************************************************)
(* The page renderer, pdfium_images.py.                                    *)
(***************************************************************************)
\* a plausible slip: an off-by-one page count
PdfLenOffByOne(d) == IF Len(d) > 0 THEN Len(d) - 1 ELSE 0

\* len(pdf)
PdfLen(d) == Len(d)

\* the file page-{i+1:04d}.png of the temporary directory, named by its number
ImagePath(i) == i + 1

\* the bitmap of page i, named by the page it shows
Bitmap(i) == [page |-> i]

\* a plausible slip: a directory made by hand and never removed
TempDirKept(files, raised) == [dir |-> TRUE, files |-> files]

\* a plausible slip: a directory removed after the yield, outside any finally
TempDirLeakOnError(files, raised) ==
    IF raised THEN [dir |-> TRUE, files |-> files] ELSE [dir |-> FALSE, files |-> {}]

\* the end of "with TemporaryDirectory(...)": the directory and all it holds
\* are removed, however the block is left
TempDirCleanup(files, raised) == [dir |-> FALSE, files |-> {}]

\* pdf = PdfDocument(path); page_count = len(pdf); with TemporaryDirectory(): ...
RenderOpen ==
    /\ r_pc = "open"
    /\ page_count' = PdfLen(doc)
    /\ tmp_dir' = TRUE
    /\ tmp_files' = {}
    /\ image_paths' = <<>>
    /\ pil_images' = <<>>
    /\ r_i' = 0
    /\ r_raised' = FALSE
    /\ r_pc' = "loop"
    /\ UNCHANGED notRender

\* one iteration of "for i in range(page_count)"
RenderPage ==
    /\ r_pc = "loop"
    /\ r_i < page_count
    /\ tmp_files' = tmp_files \cup {ImagePath(r_i)}
    /\ image_paths' = Append(image_paths, ImagePath(r_i))
    /\ pil_images' = Append(pil_images, Bitmap(r_i))
    /\ r_i' = r_i + 1
    /\ UNCHANGED <<page_count, tmp_dir, r_raised, r_pc>>
    /\ UNCHANGED notRender

\* yield image_paths, pil_images, page_count
RenderYield ==
    /\ r_pc = "loop"
    /\ r_i >= page_count
    /\ r_pc' = "yielded"
    /\ UNCHANGED <<page_count, tmp_dir, tmp_files, image_paths, pil_images, r_i, r_raised>>
    /\ UNCHANGED notRender

\* the context is left: the TemporaryDirectory block ends
RenderExit ==
    /\ r_pc = "exiting"
    /\ LET after == TempDirCleanup(tmp_files, r_raised) IN
        /\ tmp_dir' = after.dir
        /\ tmp_files' = after.files
    /\ r_pc' = "closed"
    /\ UNCHANGED <<page_count, image_paths, pil_images, r_i, r_raised>>
    /\ UNCHANGED notRender

(***************************************************************************)
(* extract_pdf_assets, pdfium_extract.py, called directly.                 *)
(***************************************************************************)
\* textpage.get_text_range() of page i
PageText(d, i) == d[i + 1]

\* the two assertions before the return
LengthInvariant(paths, texts, n) == Len(paths) = n /\ Len(texts) = n

\* with render_pdf_pages_to_images_tmp(pdf_path) as (...):
ExtractCall ==
    /\ caller = "extract_pdf_assets"
    /\ a_pc = "start"
    /\ r_pc = "off"
    /\ r_pc' = "open"
    /\ a_pc' = "entering"
    /\ UNCHANGED <<tmp_dir, tmp_files, image_paths, pil_images, page_count,
                   page_texts, r_i, r_raised, x_i, a_result>>
    /\ UNCHANGED notDirect

\* pdf = PdfDocument(path); page_texts = []
ExtractBegin ==
    /\ caller = "extract_pdf_assets"
    /\ a_pc = "entering"
    /\ r_pc = "yielded"
    /\ page_texts' = <<>>
    /\ x_i' = 0
    /\ a_pc' = "texts"
    /\ UNCHANGED <<tmp_dir, tmp_files, image_paths, pil_images, page_count,
                   r_pc, r_i, r_raised, a_result>>
    /\ UNCHANGED notDirect

\* one iteration of "for i in range(page_count)"
ExtractPageText ==
    /\ caller = "extract_pdf_assets"
    /\ a_pc = "texts"
    /\ x_i < page_count
    /\ page_texts' = Append(page_texts, PageText(doc, x_i))
    /\ x_i' = x_i + 1
    /\ UNCHANGED <<tmp_dir, tmp_files, image_paths, pil_images, page_count,
                   r_pc, r_i, r_raised, a_pc, a_result>>
    /\ UNCHANGED notDirect

\* the assertions, then "return image_paths, page_texts, page_count" from
\* inside the with block: the return value is fixed, then the block is left
ExtractAssertReturn ==
    /\ caller = "extract_pdf_assets"
    /\ a_pc = "texts"
    /\ x_i >= page_count
    /\ IF LengthInvariant(image_paths, page_texts, page_count)
       THEN /\ a_result' = Some([image_paths |-> image_paths,
                                 page_texts |-> page_texts,
                                 page_count |-> page_count])
            /\ a_pc' = "returning"
            /\ r_raised' = FALSE
       ELSE /\ a_result' = None
            /\ a_pc' = "AssertionError"
            /\ r_raised' = TRUE
    /\ r_pc' = "exiting"
    /\ UNCHANGED <<tmp_dir, tmp_files, image_paths, pil_images, page_count,
                   page_texts, r_i, x_i>>
    /\ UNCHANGED notDirect

\* the caller of extract_pdf_assets has the result in hand
ExtractReturned ==
    /\ caller = "extract_pdf_assets"
    /\ a_pc = "returning"
    /\ r_pc = "closed"
    /\ a_pc' = "returned"
    /\ UNCHANGED <<tmp_dir, tmp_files, image_paths, pil_images, page_count,
                   page_texts, r_pc, r_i, r_raised, x_i, a_result>>
    /\ UNCHANGED notDirect

(***************************************************************************)
(* render_pdf_pages_to_images_tmp used directly, as its test does.         *)
(***************************************************************************)
\* with render_pdf_pages_to_images_tmp(pdf_path, dpi=72) as (...):
TestEnter ==
    /\ caller = "test"
    /\ a_pc = "start"
    /\ r_pc = "off"
    /\ r_pc' = "open"
    /\ a_pc' = "entering"
    /\ UNCHANGED <<tmp_dir, tmp_files, image_paths, pil_images, page_count,
                   page_texts, r_i, r_raised, x_i, a_result>>
    /\ UNCHANGED notDirect

\* the body of the with block runs
TestBody ==
    /\ caller = "test"
    /\ a_pc = "entering"
    /\ r_pc = "yielded"
    /\ a_pc' = "inside"
    /\ UNCHANGED <<tmp_dir, tmp_files, image_paths, pil_images, page_count,
                   page_texts, r_pc, r_i, r_raised, x_i, a_result>>
    /\ UNCHANGED notDirect

\* the body ends, by falling off its end or by raising
TestLeave ==
    /\ caller = "test"
    /\ a_pc = "inside"
    /\ r_pc = "yielded"
    /\ \E raised \in BOOLEAN :
         /\ r_raised' = raised
         /\ a_pc' = IF raised THEN "raised" ELSE "after"
    /\ r_pc' = "exiting"
    /\ UNCHANGED <<tmp_dir, tmp_files, image_paths, pil_images, page_count,
                   page_texts, r_i, x_i, a_result>>
    /\ UNCHANGED notDirect

InitAssets ==
    /\ InitFbIdle
    /\ doc \in Docs
    /\ caller \in {"test", "extract_pdf_assets"}
    /\ tmp_dir = FALSE
    /\ tmp_files = {}
    /\ image_paths = <<>>
    /\ pil_images = <<>>
    /\ page_count = 0
    /\ page_texts = <<>>
    /\ r_pc = "off"
    /\ r_i = 0
    /\ r_raised = FALSE
    /\ x_i = 0
    /\ a_pc = "start"
    /\ a_result = None
    /\ InitPipelineIdle
    /\ InitCliIdle

NextAssets ==
    \/ RenderOpen
    \/ RenderPage
    \/ RenderYield
    \/ RenderExit
    \/ ExtractCall
    \/ ExtractBegin
    \/ ExtractPageText
    \/ ExtractAssertReturn
    \/ ExtractReturned
    \/ TestEnter
    \/ TestBody
    \/ TestLeave

SpecAssets == InitAssets /\ [][NextAssets]_vars

\* C1: whenever extract_pdf_assets hands (image_paths, page_texts, page_count)
\* to its caller, both lists have exactly page_count entries and page_count is
\* the document's page count, for every page count from 0 up; the extraction
\* never hands over lists that disagree with page_count (it aborts instead).
C1_AssetLengths ==
    /\ a_pc = "returned" =>
          /\ a_result # None
          /\ a_result[1].page_count = Len(doc)
          /\ Len(a_result[1].image_paths) = a_result[1].page_count
          /\ Len(a_result[1].page_texts) = a_result[1].page_count
    /\ a_pc = "AssertionError" => a_result = None

\* a three-page document whose second page has no text layer was extracted
C1_Witness ==
    /\ caller = "extract_pdf_assets"
    /\ a_pc = "returned"
    /\ a_result[1].page_count = 3
    /\ Len(a_result[1].image_paths) = 3
    /\ a_result[1].page_texts[2] = <<>>
    /\ a_result[1].page_texts[3] # <<>>

\* C3: inside the context of render_pdf_pages_to_images_tmp every returned
\* path exists and page_count is the document's page count and the number of
\* paths and of images; right after the context is left, however it is left,
\* none of the returned paths exists.
C3_RenderContext ==
    /\ r_pc = "yielded" =>
          /\ \A k \in 1..Len(image_paths) : image_paths[k] \in tmp_files
          /\ page_count = Len(doc)
          /\ Len(image_paths) = page_count
          /\ Len(pil_images) = page_count
    /\ r_pc = "closed" =>
          \A k \in 1..Len(image_paths) : image_paths[k] \notin tmp_files

\* the test's block over a three-page document was left by an exception and
\* its three paths are gone
C3_Witness ==
    /\ caller = "test"
    /\ a_pc = "raised"
    /\ r_pc = "closed"
    /\ Len(image_paths) = 3
    /\ tmp_files = {}

(***************************************************************************)
(* The page converter, llm_markdown.py.  Time is not modelled: a           *)
(* PageMetrics is written without its duration_s.                          *)
(***************************************************************************)
\* the environment: a variable that is unset or empty reads as FALSE
Envs ==
    [AZURE_OPENAI_ENDPOINT : BOOLEAN,
     AZURE_OPENAI_API_KEY : BOOLEAN,
     OPENAI_API_KEY : BOOLEAN,
     PDFMDER_ALLOW_FALLBACK : {"unset", "0", "1"}]

\* os.getenv("PDFMDER_MODEL", "gpt-5") with no override set
ModelName(e) == "gpt-5"

\* a plausible slip: the comparison turned round
AllowFallbackInverted(e) ==
    (IF e.PDFMDER_ALLOW_FALLBACK = "unset" THEN "1" ELSE e.PDFMDER_ALLOW_FALLBACK) = "0"

\* os.getenv("PDFMDER_ALLOW_FALLBACK", "1") != "0"
AllowFallback(e) ==
    (IF e.PDFMDER_ALLOW_FALLBACK = "unset" THEN "1" ELSE e.PDFMDER_ALLOW_FALLBACK) # "0"

\* a plausible slip: the Azure check dropped from the converter
MissingAzureKeyUnchecked(e) == FALSE

\* os.getenv("AZURE_OPENAI_ENDPOINT") and not os.getenv("AZURE_OPENAI_API_KEY")
MissingAzureKey(e) == e.AZURE_OPENAI_ENDPOINT /\ ~e.AZURE_OPENAI_API_KEY

\* not os.getenv("AZURE_OPENAI_ENDPOINT") and not os.getenv("OPENAI_API_KEY")
MissingOpenAIKey(e) == ~e.AZURE_OPENAI_ENDPOINT /\ ~e.OPENAI_API_KEY

\* _get_openai_client: the client, or the error it raises
GetOpenAIClient(e) ==
    IF e.AZURE_OPENAI_ENDPOINT
    THEN IF ~e.AZURE_OPENAI_API_KEY
         THEN [type |-> "RuntimeError", what |-> "AZURE_OPENAI_API_KEY must be set"]
         ELSE NoException
    ELSE IF ~e.OPENAI_API_KEY
         THEN [type |-> "RuntimeError", what |-> "OPENAI_API_KEY must be set"]
         ELSE NoException

\* what the model may answer, before "md.strip() + newline"
ModelOutputs == { <<"a", "a">>, <<NL, "a", " ", NL>> }

\* the usage the provider reports: none at all, or the three counts
Usages ==
    { None,
      Some([input_tokens |-> Some(3), output_tokens |-> Some(2), total_tokens |-> Some(5)]) }

\* extract_usage
extract_usage(usage) ==
    IF usage = None
    THEN [input_tokens |-> None, output_tokens |-> None, total_tokens |-> None]
    ELSE usage[1]

\* how one attempt of agent.run_sync may end
AttemptOutcomes ==
    [kind : {"ok"}, output : ModelOutputs, usage : Usages]
    \cup [kind : {"RateLimitError", "RuntimeError", "Exception"},
          output : {<<>>}, usage : {None}]

\* the retry policy of _run_agent_with_retry
MaxAttempts == 6
WaitMultiplier == 1
WaitMin == 2
WaitMax == 30

Min(a, b) == IF a < b THEN a ELSE b
Max(a, b) == IF a > b THEN a ELSE b

\* a plausible slip: one retry too many
StopAfterSeven(n) == n >= MaxAttempts + 1

\* stop_after_attempt(6), asked after attempt number n failed
StopAfterAttempt(n) == n >= MaxAttempts

\* wait_exponential(multiplier=1, min=2, max=30), asked after attempt number n
WaitExponential(n) == Max(WaitMin, Min(WaitMultiplier * 2^(n - 1), WaitMax))

\* retry_if_exception_type(RateLimitError)
Retryable(kind) == kind = "RateLimitError"

\* what _run_agent_with_retry raises when an attempt ends with an error of
\* this kind and no attempt follows: tenacity's RetryError once the attempts
\* are used up, else the error itself
RaisedByRetry(kind) == IF Retryable(kind) THEN "RetryError" ELSE kind

\* a plausible slip: "except RuntimeError" in the converter
ExceptCatchesRuntimeError(type) == type = "RuntimeError"

\* "except Exception": every error the model call can end with is one
ExceptCatches(type) == type \in {"RetryError", "RuntimeError", "Exception"}

\* a plausible slip: the except clause returns the fallback without asking
UseFallbackUnasked(type, e) == ExceptCatches(type)

\* "except Exception: if allow_fallback: return fallback ...; raise"
UseFallback(type, e) == ExceptCatches(type) /\ AllowFallback(e)

\* the tuple the three fallback returns build
FallbackResult(text, e) ==
    [md |-> fallback_markdown(text),
     metrics |-> [model |-> ModelName(e), input_tokens |-> None,
                  output_tokens |-> None, total_tokens |-> None, fallback |-> TRUE]]

\* the tuple the successful return builds
SuccessResult(output, usage, e) ==
    LET u == extract_usage(usage) IN
    [md |-> Strip(output) \o <<NL>>,
     metrics |-> [model |-> ModelName(e), input_tokens |-> u.input_tokens,
                  output_tokens |-> u.output_tokens, total_tokens |-> u.total_tokens,
                  fallback |-> FALSE]]

\* the images add_image reads: previous, current, next, skipping None
ImagesOf(w) ==
    {w.prev_image[k] : k \in 1..Len(w.prev_image)}
    \cup {w.curr_image}
    \cup {w.next_image[k] : k \in 1..Len(w.next_image)}

\* the call returns r; the history notes how the call went: "ok", "error"
\* (the model call failed) or "no_credentials"
ConvertReturns(r, how) ==
    /\ c_ret' = Some(r)
    /\ conv_log' = Append(conv_log, [window |-> window[1], md |-> r.md,
                                     metrics |-> r.metrics, how |-> how])
    /\ c_pc' = "returned"
    /\ exc' = exc

\* the call raises e
ConvertRaises(e) ==
    /\ exc' = e
    /\ c_pc' = "raised"
    /\ UNCHANGED <<c_ret, conv_log>>

\* the top of convert_to_markdown: configuration, then the credential checks
ConvertEntry ==
    /\ c_pc = "entry"
    /\ IF MissingAzureKey(env)
       THEN IF AllowFallback(env)
            THEN ConvertReturns(FallbackResult(window[1].curr_text, env), "no_credentials")
            ELSE ConvertRaises([type |-> "RuntimeError",
                                what |-> "AZURE_OPENAI_API_KEY must be set"])
       ELSE IF MissingOpenAIKey(env)
       THEN IF AllowFallback(env)
            THEN ConvertReturns(FallbackResult(window[1].curr_text, env), "no_credentials")
            ELSE ConvertRaises([type |-> "RuntimeError",
                                what |-> "OPENAI_API_KEY must be set"])
       ELSE /\ c_pc' = "prepare"
            /\ UNCHANGED <<c_ret, conv_log, exc>>
    /\ UNCHANGED <<window, attempt_log, delays, images_read, called_model>>
    /\ UNCHANGED <<fbVars, constVars, renderVars, page_texts, directVars, cliVars>>
    /\ UNCHANGED <<p_pc, p_i, md_pages, page_metrics, prev_md, p_result>>

\* _make_agent, the prompt, and add_image reading the image files
ConvertPrepare ==
    /\ c_pc = "prepare"
    /\ IF GetOpenAIClient(env) # NoException
       THEN /\ ConvertRaises(GetOpenAIClient(env))
            /\ UNCHANGED images_read
       ELSE IF ~(ImagesOf(window[1]) \subseteq tmp_files)
       THEN /\ ConvertRaises([type |-> "FileNotFoundError", what |-> "image"])
            /\ images_read' = ImagesOf(window[1]) \cap tmp_files
       ELSE /\ images_read' = ImagesOf(window[1])
            /\ c_pc' = "attempt"
            /\ UNCHANGED <<c_ret, conv_log, exc>>
    /\ UNCHANGED <<window, attempt_log, delays, called_model>>
    /\ UNCHANGED <<fbVars, constVars, renderVars, page_texts, directVars, cliVars>>
    /\ UNCHANGED <<p_pc, p_i, md_pages, page_metrics, prev_md, p_result>>

\* one attempt of _run_agent_with_retry and what follows it: the wait before
\* the next attempt, the successful return, or the except clause
ModelAttempt ==
    /\ c_pc = "attempt"
    /\ \E o \in AttemptOutcomes :
        LET n == Len(attempt_log) + 1 IN
        /\ attempt_log' = Append(attempt_log, o.kind)
        /\ called_model' = TRUE
        /\ IF o.kind = "ok"
           THEN /\ ConvertReturns(SuccessResult(o.output, o.usage, env), "ok")
                /\ UNCHANGED delays
           ELSE IF Retryable(o.kind) /\ ~StopAfterAttempt(n)
           THEN /\ delays' = Append(delays, WaitExponential(n))
                /\ UNCHANGED <<c_pc, c_ret, conv_log, exc>>
           ELSE /\ UNCHANGED delays
                /\ IF UseFallback(RaisedByRetry(o.kind), env)
                   THEN ConvertReturns(FallbackResult(window[1].curr_text, env), "error")
                   ELSE ConvertRaises([type |-> RaisedByRetry(o.kind),
                                       what |-> "llm_error"])
    /\ UNCHANGED <<window, images_read>>
    /\ UNCHANGED <<fbVars, constVars, renderVars, page_texts, directVars, cliVars>>
    /\ UNCHANGED <<p_pc, p_i, md_pages, page_metrics, prev_md, p_result>>

(***************************************************************************)
(* The document pipeline, converter.py.  extract_pdf_assets_tmp, which it  *)
(* enters, is not among the sources: it is modelled as the scoped asset    *)
(* bundle of the specification, built on the renderer above.               *)
(***************************************************************************)
\* the separator between pages
Separator == <<NL, NL, "-", "-", "-", NL, NL>>

RECURSIVE JoinWith(_, _)
JoinWith(sep, parts) ==
    IF parts = <<>> THEN <<>>
    ELSE IF Len(parts) = 1 THEN parts[1]
    ELSE parts[1] \o sep \o JoinWith(sep, Tail(parts))

\* a plausible slip: the pages joined as they are, nothing trimmed
JoinPagesUntrimmed(pages) == JoinWith(Separator, pages) \o <<NL>>

\* "\n\n---\n\n".join(p.strip("\n") for p in md_pages).strip() + "\n"
JoinPages(pages) ==
    Strip(JoinWith(Separator, [k \in 1..Len(pages) |-> StripChars(pages[k], {NL})]))
        \o <<NL>>

\* a plausible slip: the previous page's context taken from the current page
WindowShifted(texts, paths, n, idx, prev) ==
    [prev_text |-> IF idx > 0 THEN Some(texts[idx + 1]) ELSE None,
     prev_image |-> IF idx > 0 THEN Some(paths[idx + 1]) ELSE None,
     curr_text |-> texts[idx + 1],
     curr_image |-> paths[idx + 1],
     next_text |-> IF idx + 1 < n THEN Some(texts[idx + 2]) ELSE None,
     next_image |-> IF idx + 1 < n THEN Some(paths[idx + 2]) ELSE None,
     prev_markdown |-> prev]

\* the keyword arguments for page idx (counted from 0)
Window(texts, paths, n, idx, prev) ==
    [prev_text |-> IF idx > 0 THEN Some(texts[idx]) ELSE None,
     prev_image |-> IF idx > 0 THEN Some(paths[idx]) ELSE None,
     curr_text |-> texts[idx + 1],
     curr_image |-> paths[idx + 1],
     next_text |-> IF idx + 1 < n THEN Some(texts[idx + 2]) ELSE None,
     next_image |-> IF idx + 1 < n THEN Some(paths[idx + 2]) ELSE None,
     prev_markdown |-> prev]

\* a plausible slip: metrics kept only for pages the model converted
MetricsKeptIfModel(ms, m) == IF m.fallback THEN ms ELSE Append(ms, m)

\* page_metrics.append(metrics)
MetricsAppend(ms, m) == Append(ms, m)

\* "for i in range(page_count)" is exhausted
LoopDone(idx, n) == idx >= n

\* with extract_pdf_assets_tmp(pdf_path) as (...): the bundle's scope opens
PipelineStart ==
    /\ p_pc = "start"
    /\ r_pc = "off"
    /\ r_pc' = "open"
    /\ p_pc' = "assets"
    /\ UNCHANGED <<tmp_dir, tmp_files, image_paths, pil_images, page_count, r_i, r_raised>>
    /\ UNCHANGED <<p_i, md_pages, page_metrics, prev_md, conv_log, p_result>>
    /\ UNCHANGED <<fbVars, constVars, page_texts, directVars, cliVars>>
    /\ UNCHANGED <<c_pc, window, attempt_log, delays, images_read, called_model, c_ret, exc>>

\* the bundle extracts the texts, validates the lengths and yields; the
\* pipeline initialises its lists
AssetsTmpYield ==
    /\ p_pc = "assets"
    /\ r_pc = "yielded"
    /\ LET texts == [k \in 1..page_count |-> PageText(doc, k - 1)] IN
       /\ page_texts' = texts
       /\ IF LengthInvariant(image_paths, texts, page_count)
          THEN /\ p_pc' = "loop"
               /\ UNCHANGED <<r_pc, r_raised, exc>>
          ELSE /\ p_pc' = "raising"
               /\ r_pc' = "exiting"
               /\ r_raised' = TRUE
               /\ exc' = [type |-> "AssertionError", what |-> "length"]
    /\ p_i' = 0
    /\ md_pages' = <<>>
    /\ page_metrics' = <<>>
    /\ prev_md' = None
    /\ UNCHANGED <<tmp_dir, tmp_files, image_paths, pil_images, page_count, r_i>>
    /\ UNCHANGED <<conv_log, p_result>>
    /\ UNCHANGED <<fbVars, constVars, directVars, cliVars>>
    /\ UNCHANGED <<c_pc, window, attempt_log, delays, images_read, called_model, c_ret>>

\* one iteration begins: the window is built and convert_to_markdown called
PipelineCall ==
    /\ p_pc = "loop"
    /\ ~LoopDone(p_i, page_count)
    /\ window' = Some(Window(page_texts, image_paths, page_count, p_i, prev_md))
    /\ c_pc' = "entry"
    /\ attempt_log' = <<>>
    /\ delays' = <<>>
    /\ images_read' = {}
    /\ c_ret' = None
    /\ p_pc' = "call"
    /\ UNCHANGED <<called_model, exc>>
    /\ UNCHANGED <<p_i, md_pages, page_metrics, prev_md, conv_log, p_result>>
    /\ UNCHANGED <<fbVars, constVars, renderVars, page_texts, directVars, cliVars>>

\* the call returned, its locals are gone: md_pages.append(md);
\* page_metrics.append(metrics); prev_md = md
PipelineAppend ==
    /\ p_pc = "call"
    /\ c_pc = "returned"
    /\ md_pages' = Append(md_pages, c_ret[1].md)
    /\ page_metrics' = MetricsAppend(page_metrics, c_ret[1].metrics)
    /\ prev_md' = Some(c_ret[1].md)
    /\ p_i' = p_i + 1
    /\ p_pc' = "loop"
    /\ c_pc' = "idle"
    /\ window' = None
    /\ attempt_log' = <<>>
    /\ delays' = <<>>
    /\ images_read' = {}
    /\ c_ret' = None
    /\ UNCHANGED <<conv_log, p_result, called_model, exc>>
    /\ UNCHANGED <<fbVars, constVars, renderVars, page_texts, directVars, cliVars>>

\* the call raised, its locals are gone: nothing in the pipeline catches the
\* exception, the with block is left
PipelinePropagate ==
    /\ p_pc = "call"
    /\ c_pc = "raised"
    /\ p_pc' = "raising"
    /\ c_pc' = "idle"
    /\ r_pc' = "exiting"
    /\ r_raised' = TRUE
    /\ window' = None
    /\ attempt_log' = <<>>
    /\ delays' = <<>>
    /\ images_read' = {}
    /\ UNCHANGED <<tmp_dir, tmp_files, image_paths, pil_images, page_count, r_i>>
    /\ UNCHANGED <<p_i, md_pages, page_metrics, prev_md, conv_log, p_result>>
    /\ UNCHANGED <<called_model, c_ret, exc>>
    /\ UNCHANGED <<fbVars, constVars, page_texts, directVars, cliVars>>

\* after the loop: the return value is built inside the with block, which is
\* then left
PipelineReturn ==
    /\ p_pc = "loop"
    /\ LoopDone(p_i, page_count)
    /\ p_result' = Some([md |-> JoinPages(md_pages), metrics |-> page_metrics])
    /\ p_pc' = "returning"
    /\ r_pc' = "exiting"
    /\ r_raised' = FALSE
    /\ UNCHANGED <<tmp_dir, tmp_files, image_paths, pil_images, page_count, r_i>>
    /\ UNCHANGED <<p_i, md_pages, page_metrics, prev_md, conv_log>>
    /\ UNCHANGED <<fbVars, constVars, page_texts, directVars, convVars, cliVars>>

\* the scope has closed: the caller of convert_pdf_to_markdown has the
\* result, or the exception
PipelineLeft ==
    /\ p_pc \in {"returning", "raising"}
    /\ r_pc = "closed"
    /\ p_pc' = IF p_pc = "returning" THEN "returned" ELSE "raised"
    /\ UNCHANGED <<p_i, md_pages, page_metrics, prev_md, conv_log, p_result>>
    /\ UNCHANGED <<fbVars, constVars, renderVars, page_texts, directVars, convVars, cliVars>>

\* convert_pdf_to_markdown called on a document, under an environment
InitPipeline ==
    /\ InitFbIdle
    /\ doc \in Docs
    /\ caller = "pipeline"
    /\ env \in Envs
    /\ tmp_dir = FALSE
    /\ tmp_files = {}
    /\ image_paths = <<>>
    /\ pil_images = <<>>
    /\ page_count = 0
    /\ page_texts = <<>>
    /\ r_pc = "off"
    /\ r_i = 0
    /\ r_raised = FALSE
    /\ x_i = 0
    /\ a_pc = "off"
    /\ a_result = None
    /\ c_pc = "idle"
    /\ window = None
    /\ attempt_log = <<>>
    /\ delays = <<>>
    /\ images_read = {}
    /\ called_model = FALSE
    /\ c_ret = None
    /\ exc = NoException
    /\ p_pc = "start"
    /\ p_i = 0
    /\ md_pages = <<>>
    /\ page_metrics = <<>>
    /\ prev_md = None
    /\ conv_log = <<>>
    /\ p_result = None
    /\ InitCliIdle

NextPipeline ==
    \/ RenderOpen
    \/ RenderPage
    \/ RenderYield
    \/ RenderExit
    \/ PipelineStart
    \/ AssetsTmpYield
    \/ PipelineCall
    \/ ConvertEntry
    \/ ConvertPrepare
    \/ ModelAttempt
    \/ PipelineAppend
    \/ PipelinePropagate
    \/ PipelineReturn
    \/ PipelineLeft

SpecPipeline == InitPipeline /\ [][NextPipeline]_vars

\* the environment lacks the credential its configuration needs
CredentialAbsent ==
    \/ env.AZURE_OPENAI_ENDPOINT /\ ~env.AZURE_OPENAI_API_KEY
    \/ ~env.AZURE_OPENAI_ENDPOINT /\ ~env.OPENAI_API_KEY

\* PDFMDER_ALLOW_FALLBACK is unset or set to anything but "0"
FallbackEnabled == env.PDFMDER_ALLOW_FALLBACK # "0"

\* a converter call is in progress or has just ended
InCall == c_pc \in {"entry", "prepare", "attempt", "returned", "raised"}

\* the pages next to page idx that exist
Neighbours(idx, n) == {j \in {idx - 1, idx, idx + 1} : 0 <= j /\ j < n}

C4_MetricsPerPage ==
    p_pc \in {"returning", "returned"} =>
        /\ Len(p_result[1].metrics) = Len(doc)
        /\ Len(conv_log) = Len(doc)
        /\ \A k \in 1..Len(doc) :
              /\ conv_log[k].window.curr_image = ImagePath(k - 1)
              /\ conv_log[k].window.curr_text = doc[k]
              /\ p_result[1].metrics[k] = conv_log[k].metrics

\* three pages, the second fell back after a model failure, the others were
\* converted by the model with different usage reports
C4_Witness ==
    /\ p_pc = "returned"
    /\ Len(p_result[1].metrics) = 3
    /\ ~p_result[1].metrics[1].fallback
    /\ p_result[1].metrics[1].total_tokens = None
    /\ p_result[1].metrics[2].fallback
    /\ ~p_result[1].metrics[3].fallback
    /\ p_result[1].metrics[3].total_tokens # None

\* C5: with the credential absent and fallback enabled no converter call
\* raises and none calls the model; every page's metrics has fallback set and
\* no token count, and every page's Markdown is fallback_markdown of its text.
C5_NoCredentialFallback ==
    (CredentialAbsent /\ FallbackEnabled) =>
        /\ c_pc # "raised"
        /\ p_pc \notin {"raising", "raised"}
        /\ exc = NoException
        /\ ~called_model
        /\ attempt_log = <<>>
        /\ Len(md_pages) = Len(page_metrics)
        /\ p_pc \in {"returning", "returned"} => Len(md_pages) = Len(doc)
        /\ \A k \in 1..Len(page_metrics) :
              /\ page_metrics[k].fallback
              /\ page_metrics[k].input_tokens = None
              /\ page_metrics[k].output_tokens = None
              /\ page_metrics[k].total_tokens = None
              /\ md_pages[k] = fallback_markdown(doc[k])

\* an Azure endpoint without its key: three pages all fell back, the first
\* page's text cleaned, and the pipeline returned
C5_Witness ==
    /\ p_pc = "returned"
    /\ env.AZURE_OPENAI_ENDPOINT
    /\ ~env.AZURE_OPENAI_API_KEY
    /\ env.OPENAI_API_KEY
    /\ env.PDFMDER_ALLOW_FALLBACK = "unset"
    /\ Len(p_result[1].metrics) = 3
    /\ md_pages[1] = <<"a", NL, NL, "a", NL>>
    /\ md_pages[2] = <<>>

\* C6: with the credential absent and PDFMDER_ALLOW_FALLBACK "0" a converter
\* call can only raise, with the error that names the missing key (direct or
\* Azure configuration), and it does so before any request to the provider
\* and before any image file is read.
C6_NoCredentialRaises ==
    (CredentialAbsent /\ env.PDFMDER_ALLOW_FALLBACK = "0") =>
        /\ c_pc \in {"idle", "entry", "raised"}
        /\ ~called_model
        /\ images_read = {}
        /\ conv_log = <<>>
        /\ c_pc = "raised" =>
              /\ exc.type = "RuntimeError"
              /\ exc.what = IF env.AZURE_OPENAI_ENDPOINT
                             THEN "AZURE_OPENAI_API_KEY must be set"
                             ELSE "OPENAI_API_KEY must be set"

\* the Azure configuration without its key, fallback disabled: the call for
\* the first page raised
C6_Witness ==
    /\ c_pc = "raised"
    /\ env.AZURE_OPENAI_ENDPOINT
    /\ ~env.AZURE_OPENAI_API_KEY
    /\ env.PDFMDER_ALLOW_FALLBACK = "0"
    /\ exc.what = "AZURE_OPENAI_API_KEY must be set"
    /\ ~called_model
    /\ images_read = {}

\* C7: with fallback enabled a failed model call on a page, whatever the
\* error and also after the retries are used up, makes that call return the
\* fallback result (fallback_markdown of the page's text, fallback flag set)
\* and a successful call returns with the flag clear; the pipeline never
\* aborts, calls the converter for every page and returns.
C7_FallbackIsPageScoped ==
    FallbackEnabled =>
        /\ c_pc # "raised"
        /\ p_pc \notin {"raising", "raised"}
        /\ (c_pc = "returned" /\ attempt_log # <<>>) =>
              IF attempt_log[Len(attempt_log)] = "ok"
              THEN ~c_ret[1].metrics.fallback
              ELSE /\ c_ret[1].metrics.fallback
                   /\ c_ret[1].md = fallback_markdown(doc[p_i + 1])
        /\ p_pc \in {"returning", "returned"} => Len(conv_log) = Len(doc)
        /\ \A k \in 1..Len(page_metrics) :
              /\ conv_log[k].how = "error" =>
                    /\ md_pages[k] = fallback_markdown(doc[k])
                    /\ page_metrics[k].fallback
              /\ conv_log[k].how = "ok" => ~page_metrics[k].fallback

\* the model call failed on the first of three pages; the later pages were
\* still converted, by the model, and the pipeline returned
C7_Witness ==
    /\ p_pc = "returned"
    /\ Len(doc) = 3
    /\ conv_log[1].how = "error"
    /\ conv_log[2].how = "ok"
    /\ conv_log[3].how = "ok"
    /\ page_metrics[1].fallback
    /\ md_pages[1] = <<"a", NL, NL, "a", NL>>
    /\ ~page_metrics[3].fallback

\* the waits of the retry policy: 2 first, then the same or the double of the
\* one before, capped at 30
BackoffGrows(ds) ==
    /\ ds # <<>> => ds[1] = 2
    /\ \A j \in 1..Len(ds) : 2 <= ds[j] /\ ds[j] <= 30
    /\ \A j \in 1..(Len(ds) - 1) : ds[j + 1] \in {ds[j], Min(2 * ds[j], 30)}
    /\ \A j \in 2..(Len(ds) - 1) : ds[j + 1] > ds[j] \/ ds[j] = 30

\* C9: within one page conversion the model is called at most 6 times; an
\* attempt follows only a rate-limit error, after a wait that starts at 2,
\* doubles and never exceeds 30; any other error ends the attempts; a 6th
\* rate-limit error ends them as a failed call: the fallback result when
\* fallback is enabled, else the error propagates.
C9_BoundedRetry ==
    /\ Len(attempt_log) <= 6
    /\ \A j \in 1..(Len(attempt_log) - 1) : attempt_log[j] = "RateLimitError"
    /\ c_pc = "attempt" =>
          /\ Len(attempt_log) < 6
          /\ \A j \in 1..Len(attempt_log) : attempt_log[j] = "RateLimitError"
          /\ Len(delays) = Len(attempt_log)
    /\ (c_pc \in {"returned", "raised"} /\ attempt_log # <<>>) =>
          Len(delays) = Len(attempt_log) - 1
    /\ BackoffGrows(delays)
    /\ (Len(attempt_log) = 6 /\ attempt_log[6] = "RateLimitError") =>
          IF FallbackEnabled
          THEN /\ c_pc = "returned"
               /\ c_ret[1].metrics.fallback
               /\ c_ret[1].md = fallback_markdown(doc[p_i + 1])
          ELSE /\ c_pc = "raised"
               /\ exc.type = "RetryError"

\* six attempts all hit the rate limit, with fallback disabled: five waits
\* were slept through and the failure propagates
C9_Witness ==
    /\ c_pc = "raised"
    /\ Len(attempt_log) = 6
    /\ attempt_log[6] = "RateLimitError"
    /\ delays = <<2, 2, 4, 8, 16>>
    /\ exc.type = "RetryError"

(***************************************************************************)
(* The command surface, cli.py.                                            *)
(***************************************************************************)
MaxCliPages == 2    \* most pages of a document given to the command surface

\* an output file that was there before the run
OldContent == <<"o", "l", "d">>

Suffixes == {".pdf", ".PDF", ".txt"}

\* a plausible slip: the suffix compared as it is written
LowerSkipped(suffix) == suffix

\* str.lower() on a suffix
Lower(suffix) == IF suffix = ".PDF" THEN ".pdf" ELSE suffix

\* the directory an output path lies in
Where(output) == IF output = None THEN "default" ELSE "explicit"

\* the loop over counter = 1, 2, ...: the first candidate that does not exist
RECURSIVE FirstFree(_, _, _)
FirstFree(files, where, counter) ==
    IF files[[where |-> where, k |-> counter]] = None
    THEN counter
    ELSE FirstFree(files, where, counter + 1)

\* a plausible slip: the path taken as it is, without the collision check
ResolveOutputUnchecked(files, where) == [where |-> where, k |-> 0]

\* out_path after the collision check
ResolveOutput(files, where) ==
    [where |-> where,
     k |-> IF files[[where |-> where, k |-> 0]] # None
           THEN FirstFree(files, where, 1)
           ELSE 0]

\* isinstance(e, RuntimeError), by the class of e: tenacity's RetryError,
\* AssertionError and FileNotFoundError are not RuntimeErrors
IsRuntimeError(type) == type = "RuntimeError"

\* "x or 0" on a token count
OrZero(t) == IF t = None THEN 0 ELSE t[1]

\* total_tokens_for_page, for one page
PageTotal(m) ==
    IF m.total_tokens # None THEN m.total_tokens[1]
    ELSE OrZero(m.input_tokens) + OrZero(m.output_tokens)

\* sum() of a list of numbers
RECURSIVE Sum(_)
Sum(ns) == IF ns = <<>> THEN 0 ELSE Head(ns) + Sum(Tail(ns))

\* the totals and averages of the "LLM totals" panel; an average is kept as
\* the pair (sum, page_count) it is the quotient of
Totals(ms) ==
    LET n == Len(ms)
        total_input == Sum([k \in 1..n |-> OrZero(ms[k].input_tokens)])
        total_output == Sum([k \in 1..n |-> OrZero(ms[k].output_tokens)])
        total_tokens == Sum([k \in 1..n |-> PageTotal(ms[k])])
    IN
    [total_input |-> total_input,
     total_output |-> total_output,
     total_tokens |-> total_tokens,
     avg_input |-> <<total_input, n>>,
     avg_output |-> <<total_output, n>>,
     avg_tokens |-> <<total_tokens, n>>,
     missing_tokens |-> Cardinality({k \in 1..n :
                            ms[k].input_tokens = None \/ ms[k].output_tokens = None})]

\* a plausible slip: the table and the totals shown whatever the metrics
MetricsAlwaysShown(ms) == TRUE

\* "if metrics:", the truth value of the list
HasMetrics(ms) == ms # <<>>

\* the path is made absolute and checked: it exists, its suffix is .pdf
CliValidate ==
    /\ cli_pc = "start"
    /\ IF ~cli_args.pdf_exists
       THEN /\ console' = Append(console, "File not found")
            /\ exit_code' = Some(1)
            /\ cli_pc' = "exit"
       ELSE IF Lower(cli_args.suffix) # ".pdf"
       THEN /\ console' = Append(console, "Not a PDF")
            /\ exit_code' = Some(1)
            /\ cli_pc' = "exit"
       ELSE /\ cli_pc' = "resolve"
            /\ UNCHANGED <<console, exit_code>>
    /\ UNCHANGED <<cli_args, out_dir, out_files, out_path, summary, runs>>
    /\ UNCHANGED <<fbVars, constVars, renderVars, page_texts, directVars, convVars, pipeVars>>

\* the output path is derived, the default directory made if it is used, a
\* free name chosen, and convert_pdf_to_markdown called
CliResolveOutput ==
    /\ cli_pc = "resolve"
    /\ out_dir' = IF cli_args.output = None THEN TRUE ELSE out_dir
    /\ out_path' = Some(ResolveOutput(out_files, Where(cli_args.output)))
    /\ cli_pc' = "converting"
    /\ p_pc' = "start"
    /\ UNCHANGED <<cli_args, out_files, console, summary, exit_code, runs>>
    /\ UNCHANGED <<p_i, md_pages, page_metrics, prev_md, conv_log, p_result>>
    /\ UNCHANGED <<fbVars, constVars, renderVars, page_texts, directVars, convVars>>

\* the pipeline returned: the output is written, the confirmation shown and,
\* when there are metrics, the table and the totals
CliWrite ==
    /\ cli_pc = "converting"
    /\ p_pc = "returned"
    /\ out_files' = [out_files EXCEPT ![out_path[1]] = Some(p_result[1].md)]
    /\ IF HasMetrics(p_result[1].metrics)
       THEN /\ console' = console \o <<"Wrote", "LLM usage per page", "LLM totals">>
            /\ summary' = Some(Totals(p_result[1].metrics))
       ELSE /\ console' = Append(console, "Wrote")
            /\ UNCHANGED summary
    /\ exit_code' = Some(0)
    /\ cli_pc' = "done"
    /\ UNCHANGED <<cli_args, out_dir, out_path, runs>>
    /\ UNCHANGED <<fbVars, constVars, renderVars, page_texts, directVars, convVars, pipeVars>>

\* the pipeline raised: a RuntimeError is shown and the command exits with
\* code 1; any other exception leaves cli() uncaught and ends the process
\* with a traceback and code 1
CliCatch ==
    /\ cli_pc = "converting"
    /\ p_pc = "raised"
    /\ IF IsRuntimeError(exc.type)
       THEN /\ console' = Append(console, exc.what)
            /\ cli_pc' = "exit"
       ELSE /\ UNCHANGED console
            /\ cli_pc' = "crashed"
    /\ exit_code' = Some(1)
    /\ UNCHANGED <<cli_args, out_dir, out_files, out_path, summary, runs>>
    /\ UNCHANGED <<fbVars, constVars, renderVars, page_texts, directVars, convVars, pipeVars>>

\* the environments of the command surface's runs: the direct provider
CliEnvs == {e \in Envs : ~e.AZURE_OPENAI_ENDPOINT /\ ~e.AZURE_OPENAI_API_KEY
                         /\ e.PDFMDER_ALLOW_FALLBACK # "1"}

\* which candidate names exist before the run
ExistingBefore == { {}, {0}, {0, 1}, {0, 2} }

\* the command is run on a path, with or without --output
Init ==
    /\ InitFbIdle
    /\ doc \in UNION {DocsOfLen(n) : n \in 0..MaxCliPages}
    /\ caller = "cli"
    /\ env \in CliEnvs
    /\ cli_args \in [pdf_exists : BOOLEAN, suffix : Suffixes,
                     output : {None, Some("out.md")}]
    /\ \E taken \in ExistingBefore :
         out_files = [n \in OutNames |->
                        IF n.where = Where(cli_args.output) /\ n.k \in taken
                        THEN Some(OldContent) ELSE None]
    /\ out_dir = (cli_args.output = None /\ out_files[[where |-> "default", k |-> 0]] # None)
    /\ cli_pc = "start"
    /\ out_path = None
    /\ console = <<>>
    /\ summary = None
    /\ exit_code = None
    /\ runs = 1
    /\ tmp_dir = FALSE
    /\ tmp_files = {}
    /\ image_paths = <<>>
    /\ pil_images = <<>>
    /\ page_count = 0
    /\ page_texts = <<>>
    /\ r_pc = "off"
    /\ r_i = 0
    /\ r_raised = FALSE
    /\ x_i = 0
    /\ a_pc = "off"
    /\ a_result = None
    /\ c_pc = "idle"
    /\ window = None
    /\ attempt_log = <<>>
    /\ delays = <<>>
    /\ images_read = {}
    /\ called_model = FALSE
    /\ c_ret = None
    /\ exc = NoException
    /\ p_pc = "off"
    /\ p_i = 0
    /\ md_pages = <<>>
    /\ page_metrics = <<>>
    /\ prev_md = None
    /\ conv_log = <<>>
    /\ p_result = None

Next ==
    \/ CliValidate
    \/ CliResolveOutput
    \/ CliWrite
    \/ CliCatch
    \/ RenderOpen
    \/ RenderPage
    \/ RenderYield
    \/ RenderExit
    \/ PipelineStart
    \/ AssetsTmpYield
    \/ PipelineCall
    \/ ConvertEntry
    \/ ConvertPrepare
    \/ ModelAttempt
    \/ PipelineAppend
    \/ PipelinePropagate
    \/ PipelineReturn
    \/ PipelineLeft

Spec == Init /\ [][Next]_vars

(***************************************************************************)
(* SpecRepeat: the command run again on the same document after a run      *)
(* that wrote its output.                                                  *)
(***************************************************************************)
MaxRepeatPages == 1 \* most pages of a document the command is run on again

\* a new process of the command, with the same arguments and environment;
\* the files the earlier runs left are there
CliRunAgain ==
    /\ cli_pc = "done"
    /\ runs < MaxRuns
    /\ runs' = runs + 1
    /\ cli_pc' = "start"
    /\ out_path' = None
    /\ console' = <<>>
    /\ summary' = None
    /\ exit_code' = None
    /\ UNCHANGED <<cli_args, out_dir, out_files>>
    /\ tmp_dir' = FALSE
    /\ tmp_files' = {}
    /\ image_paths' = <<>>
    /\ pil_images' = <<>>
    /\ page_count' = 0
    /\ page_texts' = <<>>
    /\ r_pc' = "off"
    /\ r_i' = 0
    /\ r_raised' = FALSE
    /\ c_pc' = "idle"
    /\ window' = None
    /\ attempt_log' = <<>>
    /\ delays' = <<>>
    /\ images_read' = {}
    /\ called_model' = FALSE
    /\ c_ret' = None
    /\ exc' = NoException
    /\ p_pc' = "off"
    /\ p_i' = 0
    /\ md_pages' = <<>>
    /\ page_metrics' = <<>>
    /\ prev_md' = None
    /\ conv_log' = <<>>
    /\ p_result' = None
    /\ UNCHANGED <<fbVars, constVars, directVars>>

NextRepeat ==
    \/ CliRunAgain
    \/ CliValidate
    \/ CliResolveOutput
    \/ CliWrite
    \/ CliCatch
    \/ RenderOpen
    \/ RenderPage
    \/ RenderYield
    \/ RenderExit
    \/ PipelineStart
    \/ AssetsTmpYield
    \/ PipelineCall
    \/ ConvertEntry
    \/ ConvertPrepare
    \/ ModelAttempt
    \/ PipelineAppend
    \/ PipelinePropagate
    \/ PipelineReturn
    \/ PipelineLeft

\* the first run starts as a single run does, on a short document
InitRepeat ==
    /\ Init
    /\ Len(doc) <= MaxRepeatPages

SpecRepeat == InitRepeat /\ [][NextRepeat]_vars

\* the model call failed for good while fallback was disabled
CallFailedNoFallback ==
    env.PDFMDER_ALLOW_FALLBACK = "0" /\ exc.what = "llm_error"

\* no output file was created or changed
NothingWritten ==
    \A n \in OutNames : out_files[n] \in {None, Some(OldContent)}

\* C8 as stated: when fallback is disabled and a page's model call fails for
\* good, the failure leaves the pipeline, no later page is converted, no
\* output file is written, and the process exits non-zero with a user-facing
\* message.
C8_AsStated ==
    CallFailedNoFallback =>
        /\ cli_pc # "done"
        /\ Len(conv_log) = p_i
        /\ NothingWritten
        /\ cli_pc \in {"exit", "crashed"} =>
              /\ exit_code = Some(1)
              /\ console # <<>>

\* C8, amended: with fallback disabled no failed model call returns a page;
\* the failure leaves the pipeline, no later page is converted, no output
\* file is written and the process exits with code 1.  The command surface
\* shows its message only for a RuntimeError; any other exception, such as
\* the RetryError after six rate-limit errors, leaves it uncaught and nothing
\* is printed on the console.
C8_FailureAborts ==
    /\ env.PDFMDER_ALLOW_FALLBACK = "0" =>
          \A k \in 1..Len(conv_log) : conv_log[k].how = "ok"
    /\ CallFailedNoFallback =>
          /\ c_pc \in {"raised", "idle"}
          /\ p_pc \in {"call", "raising", "raised"}
          /\ cli_pc \in {"converting", "exit", "crashed"}
          /\ Len(conv_log) = p_i
          /\ NothingWritten
          /\ cli_pc \in {"exit", "crashed"} =>
                /\ exit_code = Some(1)
                /\ IF exc.type = "RuntimeError"
                   THEN cli_pc = "exit" /\ console = <<"llm_error">>
                   ELSE cli_pc = "crashed" /\ console = <<>>

\* the second page's model call ran out of its six attempts after the first
\* page was converted; the RetryError left the command uncaught, nothing was
\* printed, the existing output file is as it was and no new one was made
C8_Witness ==
    /\ cli_pc = "crashed"
    /\ env.PDFMDER_ALLOW_FALLBACK = "0"
    /\ exc = [type |-> "RetryError", what |-> "llm_error"]
    /\ Len(doc) = 2
    /\ Len(conv_log) = 1
    /\ exit_code = Some(1)
    /\ console = <<>>
    /\ out_files[[where |-> "default", k |-> 0]] = Some(OldContent)
    /\ out_files[[where |-> "default", k |-> 1]] = None

(***************************************************************************)
(* SpecFallback: fallback_markdown applied to an input, then to its own    *)
(* result.                                                                 *)
(***************************************************************************)
InitFallback ==
    /\ fb_pc = "input"
    /\ fb_x \in StringsUpTo(MaxLen)
    /\ fb_y = <<>>
    /\ fb_z = <<>>
    /\ InitAssetsIdle
    /\ InitPipelineIdle
    /\ InitCliIdle

FbApply ==
    /\ fb_pc = "input"
    /\ fb_y' = fallback_markdown(fb_x)
    /\ fb_pc' = "once"
    /\ UNCHANGED <<fb_x, fb_z, constVars, renderVars, page_texts, directVars, convVars, pipeVars, cliVars>>

FbReapply ==
    /\ fb_pc = "once"
    /\ fb_z' = fallback_markdown(fb_y)
    /\ fb_pc' = "twice"
    /\ UNCHANGED <<fb_x, fb_y, constVars, renderVars, page_texts, directVars, convVars, pipeVars, cliVars>>

NextFallback == FbApply \/ FbReapply

SpecFallback == InitFallback /\ [][NextFallback]_vars

\* C10: fallback_markdown is idempotent: applying it to its own result
\* gives that result again, for every input string.
C10_FallbackIdempotent ==
    fb_pc = "twice" => fb_z = fb_y

\* a run of four newlines inside the text was collapsed by the first
\* application and the second application has been made
C10_Witness ==
    /\ fb_pc = "twice"
    /\ fb_x = <<"a", NL, NL, NL, NL, "a">>
    /\ fb_y = <<"a", NL, NL, "a", NL>>
    /\ fb_z = fb_y

\* every character of s is whitespace (so is the empty string)
WhitespaceOnly(s) == \A j \in 1..Len(s) : s[j] \in Whitespace

\* s holds three newlines in a row somewhere
HasNewlineRun3(s) ==
    \E j \in 1..(Len(s) - 2) : s[j] = NL /\ s[j + 1] = NL /\ s[j + 2] = NL

\* C11: fallback_markdown returns the empty string, with no newline added,
\* for every empty or whitespace-only input; for every other input the result
\* ends with exactly one newline, does not start with whitespace, and holds
\* no run of three or more newlines.
C11_FallbackShape ==
    fb_pc \in {"once", "twice"} =>
        IF WhitespaceOnly(fb_x)
        THEN fb_y = <<>>
        ELSE /\ Len(fb_y) >= 2
             /\ fb_y[Len(fb_y)] = NL
             /\ fb_y[Len(fb_y) - 1] # NL
             /\ fb_y[1] \notin Whitespace
             /\ ~HasNewlineRun3(fb_y)

\* a text with a leading blank and a run of three newlines inside came out
\* trimmed, with the run collapsed to two and one newline at the end
C11_Witness ==
    /\ fb_pc = "once"
    /\ fb_x = <<" ", "a", NL, NL, NL, "a">>
    /\ fb_y = <<"a", NL, NL, "a", NL>>

\* the other case of C11: an input of blanks and newlines only gave the
\* empty string
C11_WitnessBlank ==
    /\ fb_pc = "once"
    /\ fb_x = <<" ", NL, " ">>
    /\ fb_y = <<>>

(***************************************************************************)
(* The joined document of a run with fallback forced.                      *)
(***************************************************************************)
\* the cleaned text of a page, without the newline fallback_markdown ends it
\* with
CleanedText(text) ==
    LET md == fallback_markdown(text) IN
    IF md = <<>> THEN <<>> ELSE SubSeq(md, 1, Len(md) - 1)

\* the cleaned texts of the pages of d, in page order, joined by the separator
RawJoin(d) == JoinWith(Separator, [k \in 1..Len(d) |-> CleanedText(d[k])])

\* how many times sep occurs in s
Occurrences(sep, s) ==
    Cardinality({j \in 1..(Len(s) - Len(sep) + 1) :
                    SubSeq(s, j, j + Len(sep) - 1) = sep})

\* s ends with one newline and not with two
EndsWithOneNewline(s) ==
    /\ Len(s) >= 1
    /\ s[Len(s)] = NL
    /\ Len(s) >= 2 => s[Len(s) - 1] # NL

\* the pipeline returned from a run in which every page fell back for want
\* of a credential
ForcedFallbackReturned ==
    CredentialAbsent /\ FallbackEnabled /\ p_pc = "returned"

\* C12 as stated: with fallback forced the returned Markdown is the cleaned
\* page texts joined by the separator plus one newline, the separator intact
\* N-1 times whatever text the first and the last page have, and the document
\* ends with exactly one newline.
C12_AsStated ==
    ForcedFallbackReturned =>
        /\ p_result[1].md = RawJoin(doc) \o <<NL>>
        /\ Len(doc) >= 1 => Occurrences(Separator, p_result[1].md) = Len(doc) - 1
        /\ EndsWithOneNewline(p_result[1].md)

\* C12, amended: with fallback forced the returned Markdown is the cleaned
\* page texts in page order joined by the separator, trimmed of leading and
\* trailing whitespace, plus one newline; it ends with exactly one newline.
\* When the first and the last page have text that is not blank nothing is
\* trimmed and the separator stands intact between every two pages that
\* follow each other, N-1 times.  When the first page's text is blank (and
\* N >= 2) the document starts with the dashes of the first separator, its
\* two leading newlines trimmed away; when the last page's text is blank the
\* document ends with the dashes of the last separator and one newline.
C12_JoinedDocument ==
    ForcedFallbackReturned =>
        LET md == p_result[1].md
            n == Len(doc)
        IN
        /\ md = Strip(RawJoin(doc)) \o <<NL>>
        /\ EndsWithOneNewline(md)
        /\ (n >= 1 /\ ~WhitespaceOnly(doc[1]) /\ ~WhitespaceOnly(doc[n])) =>
              /\ md = RawJoin(doc) \o <<NL>>
              /\ Occurrences(Separator, md) = n - 1
        /\ (n >= 2 /\ WhitespaceOnly(doc[1])) =>
              /\ SubSeq(md, 1, 3) = <<"-", "-", "-">>
              /\ Occurrences(Separator, md) < n - 1
        /\ (n >= 2 /\ WhitespaceOnly(doc[n])) =>
              /\ SubSeq(md, Len(md) - 3, Len(md)) = <<"-", "-", "-", NL>>
              /\ Occurrences(Separator, md) < n - 1

\* a first page without text and a second with text, no credential: the
\* document starts with the dashes, the separator's leading newlines gone
C12_Witness ==
    /\ ForcedFallbackReturned
    /\ Len(doc) = 2
    /\ doc[1] = <<>>
    /\ doc[2] # <<>>
    /\ p_result[1].md = <<"-", "-", "-", NL, NL, "a", NL, NL, "a", NL>>

\* the plain case of C12: two pages with text, the separator intact between
\* them
C12_WitnessIntact ==
    /\ ForcedFallbackReturned
    /\ Len(doc) = 2
    /\ doc[1] # <<>>
    /\ doc[2] # <<>>
    /\ p_result[1].md = <<"a", NL, NL, "a">> \o Separator \o <<"a", NL, NL, "a", NL>>

(***************************************************************************)
(* The command surface: input validation and the output path.              *)
(***************************************************************************)
\* nothing has been done for the document: no renderer, pipeline or
\* converter step, no temporary directory, no output path chosen, no output
\* directory made, no output file created or changed
NoWorkDone ==
    /\ p_pc = "off"
    /\ r_pc = "off"
    /\ c_pc = "idle"
    /\ conv_log = <<>>
    /\ ~tmp_dir
    /\ tmp_files = {}
    /\ out_path = None
    /\ out_dir = (cli_args.output = None
                  /\ out_files[[where |-> "default", k |-> 0]] # None)
    /\ NothingWritten

\* C13: a path that does not exist gives "File not found" and a non-zero
\* exit; an existing path whose suffix, lower-cased, is not .pdf gives
\* "Not a PDF" and a non-zero exit; in both cases the pipeline is never
\* invoked and no file or directory is created or written.  A suffix that
\* differs from .pdf in case only is not rejected.
C13_RejectsBadInput ==
    /\ (cli_pc # "start" /\ ~cli_args.pdf_exists) =>
          /\ cli_pc = "exit"
          /\ console = <<"File not found">>
          /\ exit_code = Some(1)
          /\ NoWorkDone
    /\ (cli_pc # "start" /\ cli_args.pdf_exists /\ cli_args.suffix \notin {".pdf", ".PDF"}) =>
          /\ cli_pc = "exit"
          /\ console = <<"Not a PDF">>
          /\ exit_code = Some(1)
          /\ NoWorkDone
    /\ (cli_pc # "start" /\ cli_args.pdf_exists /\ cli_args.suffix \in {".pdf", ".PDF"}) =>
          /\ cli_pc # "resolve" => out_path # None
          /\ \A j \in 1..Len(console) : console[j] \notin {"File not found", "Not a PDF"}

\* an existing .txt file was refused; the output file that was already there
\* is untouched
C13_Witness ==
    /\ cli_pc = "exit"
    /\ cli_args.pdf_exists
    /\ cli_args.suffix = ".txt"
    /\ console = <<"Not a PDF">>
    /\ exit_code = Some(1)
    /\ p_pc = "off"
    /\ out_files[[where |-> "default", k |-> 0]] = Some(OldContent)

\* the name with counter k in the directory this command writes to; k = 0 is
\* the resolved output path itself, k >= 1 is <stem>-k<suffix>
Candidate(k) == [where |-> Where(cli_args.output), k |-> k]

\* the path chosen is the resolved path if that was free, else the candidate
\* with the smallest counter whose name was free; it stays free until the
\* output is written
C14_SmallestFree ==
    /\ out_path # None =>
          /\ out_path[1].where = Where(cli_args.output)
          /\ \A j \in 0..(out_path[1].k - 1) : out_files[Candidate(j)] # None
          /\ cli_pc = "converting" => out_files[out_path[1]] = None
          /\ cli_pc = "done" => out_files[out_path[1]] # None
    /\ (runs = 2 /\ cli_pc = "done"
        /\ out_files[Candidate(0)] \notin {None, Some(OldContent)}) =>
          /\ out_path[1] = Candidate(1)
          /\ out_files[Candidate(1)] # None

\* a step leaves every existing file as it is, and creates at most the file
\* at the chosen path
C14_NoOverwriteStep ==
    \A n \in OutNames :
        /\ out_files[n] # None => out_files'[n] = out_files[n]
        /\ out_files'[n] # out_files[n] => (out_path = Some(n) /\ cli_pc' = "done")

\* C14: the command never overwrites an existing file: when the resolved
\* output path, explicit or default, exists, the output goes to the candidate
\* <stem>-k<suffix> with the smallest k >= 1 whose name is free; a second run
\* after a first that wrote the resolved path writes the -1 name and leaves
\* the first file's content as it was.
C14_NeverOverwrites == []C14_SmallestFree /\ [][C14_NoOverwriteStep]_vars

\* two runs without --output, nothing there before: the first wrote
\* <stem>.md, the second <stem>-1.md
C14_Witness ==
    /\ runs = 2
    /\ cli_pc = "done"
    /\ cli_args.output = None
    /\ out_files[[where |-> "default", k |-> 0]] \notin {None, Some(OldContent)}
    /\ out_files[[where |-> "default", k |-> 1]] # None
    /\ out_files[[where |-> "default", k |-> 2]] = None
    /\ out_path = Some([where |-> "default", k |-> 1])

\* the names with counters 0 and 2 were taken before the run: the output
\* went to the -1 name
C14_WitnessGap ==
    /\ runs = 1
    /\ cli_pc = "done"
    /\ out_files[Candidate(0)] = Some(OldContent)
    /\ out_files[Candidate(2)] = Some(OldContent)
    /\ out_path = Some(Candidate(1))

(***************************************************************************)
(* The order of the converter calls and what each one is given.            *)
(***************************************************************************)
\* what the call for page idx (counted from 0) of document d is to be given,
\* when log holds the calls that returned before it
ExpectedWindow(d, log, idx) ==
    [prev_text |-> IF idx > 0 THEN Some(d[idx]) ELSE None,
     prev_image |-> IF idx > 0 THEN Some(ImagePath(idx - 1)) ELSE None,
     curr_text |-> d[idx + 1],
     curr_image |-> ImagePath(idx),
     next_text |-> IF idx + 1 < Len(d) THEN Some(d[idx + 2]) ELSE None,
     next_image |-> IF idx + 1 < Len(d) THEN Some(ImagePath(idx + 1)) ELSE None,
     prev_markdown |-> IF idx > 0 THEN Some(log[idx].md) ELSE None]

\* C15: the pipeline converts the pages in increasing index order, one call
\* per page: the k-th call that returned was the call for page k-1, the call
\* in progress is the one for the page after those that returned, and every
\* call is given the previous text and image exactly when i > 0, the next
\* text and image exactly when i+1 < page_count, and as prev_markdown the
\* Markdown the call for page i-1 returned, absent for page 0.
C15_SequentialWindows ==
    /\ Len(conv_log) <= Len(doc)
    /\ \A k \in 1..Len(conv_log) :
          conv_log[k].window = ExpectedWindow(doc, conv_log, k - 1)
    /\ c_pc # "idle" => p_pc = "call"
    /\ c_pc \in {"entry", "prepare", "attempt", "raised"} =>
          /\ Len(conv_log) = p_i
          /\ p_i < Len(doc)
    /\ c_pc = "returned" => Len(conv_log) = p_i + 1
    /\ p_pc = "loop" => Len(conv_log) = p_i
    /\ window # None => window[1] = ExpectedWindow(doc, conv_log, p_i)
    /\ Len(md_pages) = p_i
    /\ \A k \in 1..Len(md_pages) : md_pages[k] = conv_log[k].md

\* the call for the last of three pages has started: its previous text is
\* that of the second page, which differs from its own, it has no next page,
\* and prev_markdown is what the second call returned, which differs from
\* what the first returned
C15_Witness ==
    /\ p_pc = "call"
    /\ c_pc = "entry"
    /\ Len(doc) = 3
    /\ p_i = 2
    /\ doc[2] # doc[3]
    /\ window[1].prev_text = Some(doc[2])
    /\ window[1].next_text = None
    /\ window[1].next_image = None
    /\ conv_log[1].md # conv_log[2].md
    /\ window[1].prev_markdown = Some(conv_log[2].md)

(***************************************************************************)
(* A document without pages.                                               *)
(***************************************************************************)
\* the command was given an existing .pdf path
ValidInput == cli_args.pdf_exists /\ Lower(cli_args.suffix) = ".pdf"

\* C16: a document with page_count = 0 is handled without error: no
\* converter call is made, the pipeline returns no metrics and a Markdown
\* string that is one newline, the command writes that output and shows
\* neither the per-page table nor the totals; whatever the document, the
\* averages that are shown are quotients by a page count of at least one.
C16_EmptyDocument ==
    /\ (Len(doc) = 0 /\ ValidInput) =>
          /\ conv_log = <<>>
          /\ c_pc = "idle"
          /\ ~called_model
          /\ exc = NoException
          /\ p_pc \notin {"call", "raising", "raised"}
          /\ cli_pc \notin {"exit", "crashed"}
          /\ p_pc \in {"returning", "returned"} =>
                p_result = Some([md |-> <<NL>>, metrics |-> <<>>])
          /\ cli_pc = "done" =>
                /\ out_files[out_path[1]] = Some(<<NL>>)
                /\ console = <<"Wrote">>
                /\ summary = None
                /\ exit_code = Some(0)
    /\ summary # None =>
          /\ summary[1].avg_input[2] >= 1
          /\ summary[1].avg_output[2] >= 1
          /\ summary[1].avg_tokens[2] >= 1
          /\ summary[1].avg_tokens[2] = Len(doc)

\* a document without pages was converted: the output file holds one
\* newline, only the confirmation was shown
C16_Witness ==
    /\ Len(doc) = 0
    /\ cli_pc = "done"
    /\ r_pc = "closed"
    /\ page_count = 0
    /\ out_path = Some([where |-> "explicit", k |-> 1])
    /\ out_files[[where |-> "explicit", k |-> 1]] = Some(<<NL>>)
    /\ console = <<"Wrote">>
    /\ summary = None
    /\ exit_code = Some(0)

====
